---- MODULE Spec2Model ----
(***************************************************************************)
(* A model of scripts/security/penetration-testing.py: the class           *)
(* PenetrationTester, its eight probe methods, authenticate, log_result,   *)
(* generate_report and run_all_tests.  The HTTP target is the environment: *)
(* every request receives a response drawn from the responses the target   *)
(* could give to it.                                                       *)
(***************************************************************************)
EXTENDS Integers, Sequences, FiniteSets, TLC

\* Bound of the model: in a full run, the number of requests whose response
\* departs from the uniform behaviour of the stub target.
MaxDeviations == 1

----------------------------------------------------------------------------
\* Program data

sql_payloads ==
  << "' OR '1'='1",
     "'; DROP TABLE users; --",
     "' UNION SELECT * FROM users --",
     "admin'--",
     "' OR 1=1 --" >>

xss_payloads ==
  << "<script>alert('XSS')</script>",
     "<img src=x onerror=alert('XSS')>",
     "javascript:alert('XSS')",
     "<svg onload=alert('XSS')>",
     "';alert('XSS');//" >>

error_indicators ==
  << "sql syntax", "mysql_fetch", "postgresql", "ora-",
     "microsoft jet database", "sqlite_", "syntax error" >>

\* range(10) of the brute-force loop
BruteForceAttempts == 10

admin_endpoints ==
  << "/api/admin/users", "/api/admin/system/health",
     "/api/admin/analytics", "/api/admin/settings" >>

\* the endpoint and the oversized field of each pair
endpoints_to_test ==
  << <<"/api/tasks", "title">>,
     <<"/api/projects", "name">>,
     <<"/api/users/profile", "firstName">> >>

sensitive_endpoints ==
  << "/.env", "/config.json", "/package.json", "/api/debug",
     "/api/health", "/swagger.json", "/api-docs" >>

sensitive_patterns ==
  << "password", "secret", "key", "token", "database", "connection" >>

\* the dict of test_security_headers, in insertion order: the header and
\* the values it may take (the empty set: presence is enough)
security_headers ==
  << <<"X-Content-Type-Options", {"nosniff"}>>,
     <<"X-Frame-Options", {"DENY", "SAMEORIGIN"}>>,
     <<"X-XSS-Protection", {"1; mode=block"}>>,
     <<"Strict-Transport-Security", {}>>,
     <<"Content-Security-Policy", {}>>,
     <<"Referrer-Policy", {}>> >>

test_methods ==
  << "test_sql_injection", "test_xss_vulnerabilities",
     "test_authentication_security", "test_authorization_bypass",
     "test_input_validation", "test_session_management",
     "test_information_disclosure", "test_security_headers" >>

LoginPath == "/api/auth/login"
TasksPath == "/api/tasks"
ProfilePath == "/api/users/profile"
RootPath == "/"

----------------------------------------------------------------------------
\* Values

\* A JSON value of the token fields: null (or absent), a string given by
\* its '.'-separated segments, or a number.
Null == [kind |-> "null", parts |-> <<>>]
Str(parts) == [kind |-> "str", parts |-> parts]
Num == [kind |-> "num", parts |-> <<>>]

\* Mutant of Truthy: `is not None` in place of truthiness
TruthyNotNone(v) == v.kind # "null"

\* Python truthiness of such a value: '' is the string of one empty segment
Truthy(v) == v.kind = "num" \/ (v.kind = "str" /\ v.parts # <<"">>)

\* Python's `a or b`
Or(a, b) == IF Truthy(a) THEN a ELSE b

\* str(n) for the counts the probes format
ToStr(n) ==
  CASE n = 0 -> "0" [] n = 1 -> "1" [] n = 2 -> "2" [] n = 3 -> "3"
    [] n = 4 -> "4" [] n = 5 -> "5" [] n = 6 -> "6" [] n = 7 -> "7"
    [] n = 8 -> "8" [] n = 9 -> "9" [] n = 10 -> "10"

\* str.lower() on the fragments of a text.  A text is the set of the
\* fragments it contains; `x in text` is membership.
LowerFragment(f) ==
  CASE f = "SQL Syntax" -> "sql syntax"
    [] f = "Syntax Error" -> "syntax error"
    [] f = "PASSWORD" -> "password"
    [] f = "Secret" -> "secret"
    [] f = "accessToken" -> "accesstoken"
    [] OTHER -> f

lower(text) == {LowerFragment(f) : f \in text}

\* response.json(): unparsable, a JSON array, or an object with its fields
JsonInvalid == [kind |-> "invalid", token |-> Null, accessToken |-> Null]
JsonList == [kind |-> "list", token |-> Null, accessToken |-> Null]
JsonObject(t, a) == [kind |-> "object", token |-> t, accessToken |-> a]

NoHeaders == [h \in {} |-> ""]

\* The outcome of one request: a response, or the exception the call raised
Response(status, text, json, headers) ==
  [err |-> "", status |-> status, text |-> text, json |-> json,
   headers |-> headers]

Fault(e) ==
  [err |-> e, status |-> 0, text |-> {}, json |-> JsonInvalid,
   headers |-> NoHeaders]

\* urljoin() on a malformed base URL
UrlFault == Fault("Invalid IPv6 URL")

Faults == {Fault("ConnectionError"), Fault("Timeout")}

NoResponse == Fault("")

----------------------------------------------------------------------------
\* The target: what it can answer to each kind of request

Statuses == {200, 201, 400, 401, 403, 404, 429, 500}

\* a signed token of three segments, and tokens of other shapes
Jwt == Str(<<"h", "p", "s">>)
Opaque == Str(<<"opaque">>)
TwoSegments == Str(<<"h", "p">>)
EmptyString == Str(<<"">>)

\* bodies of the login endpoint: the text and what it parses to
LoginBodies ==
  { <<{}, JsonInvalid>>,
    <<{"token"}, JsonObject(Jwt, Null)>>,
    <<{"accessToken"}, JsonObject(Null, Jwt)>>,
    <<{"sql syntax"}, JsonInvalid>>,
    <<{"SQL Syntax"}, JsonInvalid>>,
    <<{"SQL Syntax", "token"}, JsonObject(Jwt, Null)>>,
    <<{"token"}, JsonObject(Opaque, Null)>>,
    <<{"token"}, JsonObject(TwoSegments, Null)>>,
    <<{"token"}, JsonObject(Num, Null)>>,
    <<{"token", "accessToken"}, JsonObject(EmptyString, Jwt)>>,
    <<{"token"}, JsonObject(EmptyString, Null)>>,
    <<{"accessToken"}, JsonObject(Null, EmptyString)>>,
    <<{"error"}, JsonObject(Null, Null)>>,
    <<{}, JsonList>> }

\* html-escaped forms of the XSS payloads
escaped_payloads ==
  << "&lt;script&gt;alert(&#x27;XSS&#x27;)&lt;/script&gt;",
     "&lt;img src=x onerror=alert(&#x27;XSS&#x27;)&gt;",
     "javascript:alert(&#x27;XSS&#x27;)",
     "&lt;svg onload=alert(&#x27;XSS&#x27;)&gt;",
     "&#x27;;alert(&#x27;XSS&#x27;);//" >>

XssStatuses == {200, 201, 400, 500}

\* bodies answering the creation of a task with payload k: nothing of it,
\* the raw payload, its escaped form, or another payload of the set
XssTexts(k) ==
  { {}, {xss_payloads[k]}, {escaped_payloads[k]},
    {xss_payloads[(k % Len(xss_payloads)) + 1]} }

InfoStatuses == {200, 403, 404}

InfoTexts ==
  { {}, {"password"}, {"PASSWORD"}, {"Secret", "key"}, {"version"} }

HeaderNames == {security_headers[j][1] : j \in DOMAIN security_headers}

GoodHeaders ==
  [h \in HeaderNames |->
     CASE h = "X-Content-Type-Options" -> "nosniff"
       [] h = "X-Frame-Options" -> "DENY"
       [] h = "X-XSS-Protection" -> "1; mode=block"
       [] h = "Strict-Transport-Security" -> "max-age=31536000"
       [] h = "Content-Security-Policy" -> "default-src 'self'"
       [] h = "Referrer-Policy" -> "no-referrer"]

Without(hs, names) == [h \in (DOMAIN hs) \ names |-> hs[h]]

HeaderSets ==
  { GoodHeaders,
    [GoodHeaders EXCEPT !["X-Frame-Options"] = "SAMEORIGIN"],
    NoHeaders,
    Without([GoodHeaders EXCEPT !["X-Frame-Options"] = "ALLOW-FROM"],
            {"Strict-Transport-Security"}),
    [GoodHeaders EXCEPT !["X-Content-Type-Options"] = "sniff"],
    [GoodHeaders EXCEPT !["X-XSS-Protection"] = "0"],
    Without(GoodHeaders, {"Content-Security-Policy"}),
    [GoodHeaders EXCEPT !["Strict-Transport-Security"] = ""] }

\* the responses the target can give to a request of a kind (k: the index
\* of the payload the request carries), and the faults of the transport;
\* the seven requests of the information-disclosure probe meet one fault
ResponsesFor(kind, k) ==
  (IF kind = "info" THEN {Fault("ConnectionError")} ELSE Faults) \cup
  CASE kind = "login" ->
         {Response(s, b[1], b[2], NoHeaders) : s \in Statuses, b \in LoginBodies}
    [] kind = "xss" ->
         {Response(s, t, JsonInvalid, NoHeaders) : s \in XssStatuses, t \in XssTexts(k)}
    [] kind = "status" ->
         {Response(s, {}, JsonInvalid, NoHeaders) : s \in Statuses}
    [] kind = "info" ->
         {Response(s, t, JsonInvalid, NoHeaders) : s \in InfoStatuses, t \in InfoTexts}
    [] kind = "headers" ->
         {Response(200, {}, JsonInvalid, hs) : hs \in HeaderSets}

\* Stub targets of uniform behaviour: one that is down, one that rejects
\* every request, one that accepts every request
Stubs == {"down", "reject", "open"}

Nominal(s, kind) ==
  CASE s = "down" -> Fault("ConnectionError")
    [] s = "reject" ->
         IF kind = "headers"
           THEN Response(200, {}, JsonInvalid, NoHeaders)
           ELSE IF kind = "info"
             THEN Response(404, {}, JsonInvalid, NoHeaders)
             ELSE Response(401, {}, JsonInvalid, NoHeaders)
    [] s = "open" ->
         IF kind = "login"
           THEN Response(200, {"token"}, JsonObject(Jwt, Null), NoHeaders)
           ELSE IF kind = "headers"
             THEN Response(200, {}, JsonInvalid, GoodHeaders)
             ELSE Response(200, {}, JsonInvalid, NoHeaders)

----------------------------------------------------------------------------
\* State

VARIABLES
  results,           \* self.results
  clock,             \* datetime.now(), in ticks
  sent,              \* the requests handed to self.session, in order
  lastResp,          \* the outcome of the last request: response or exception
  mod,               \* position of run_all_tests in test_methods
  pc,                \* position in the running method
  invoked,           \* the test methods run_all_tests has called, in order
  frame,             \* the lengths of results and sent when the running
                     \* method was called
  i,                 \* loop position of the running probe (from 1)
  failed_attempts,   \* local of test_authentication_security
  auth_token,        \* local auth_token of the running probe
  severity_counts,   \* local of generate_report
  summary,           \* what run_all_tests prints and returns
  uncaught,          \* the exception that left run_all_tests, or ""
  stub,              \* the target's uniform behaviour
  deviations,        \* responses so far that departed from it
  badUrl,            \* whether base_url is one urljoin() rejects
  exhaustive,        \* whether the target may answer anything, always
  quirk,             \* the one request the target answers off its uniform
                     \* behaviour, and its answer, when two runs are compared
  prior              \* the results and requests of the first of two runs

log == <<results, clock>>
net == <<sent, lastResp, quirk>>
ctl == <<mod, pc, invoked, frame>>
locals == <<i, failed_attempts, auth_token>>
rep == <<severity_counts, summary, uncaught>>
target == <<stub, badUrl, exhaustive, prior>>
vars == <<results, clock, sent, lastResp, mod, pc, invoked, frame, i,
          failed_attempts, auth_token, severity_counts, summary, uncaught,
          stub, deviations, badUrl, exhaustive, quirk, prior>>

NoSummary ==
  [critical_issues |-> <<>>, high_issues |-> <<>>, clean |-> FALSE,
   returned |-> "pending"]

ZeroCounts == [critical |-> 0, high |-> 0, medium |-> 0, low |-> 0]

NoQuirk == [set |-> FALSE, key |-> <<>>, resp |-> NoResponse]

\* one run only / the first of two runs / the second, with what the first
\* left
SingleRun == [phase |-> "single", results |-> <<>>, sent |-> <<>>]
FirstRun == [phase |-> "first", results |-> <<>>, sent |-> <<>>]

\* PenetrationTester(base_url) followed by the call of run_all_tests
Init ==
  /\ results = <<>>
  /\ clock = 0
  /\ sent = <<>>
  /\ lastResp = NoResponse
  /\ mod = 1
  /\ pc = "next"
  /\ invoked = <<>>
  /\ frame = [results |-> 0, sent |-> 0]
  /\ i = 0
  /\ failed_attempts = 0
  /\ auth_token = Null
  /\ severity_counts = ZeroCounts
  /\ summary = NoSummary
  /\ uncaught = ""
  /\ stub \in Stubs
  /\ deviations = 0
  /\ badUrl \in BOOLEAN
  /\ exhaustive = FALSE
  /\ quirk = NoQuirk
  /\ prior = SingleRun

\* PenetrationTester(base_url) with a well-formed base_url, followed by
\* the call of one probe method, against a target that may answer anything
UnitInit ==
  /\ results = <<>>
  /\ clock = 0
  /\ sent = <<>>
  /\ lastResp = NoResponse
  /\ mod \in DOMAIN test_methods
  /\ pc = "entry"
  /\ invoked = <<>>
  /\ frame = [results |-> 0, sent |-> 0]
  /\ i = 0
  /\ failed_attempts = 0
  /\ auth_token = Null
  /\ severity_counts = ZeroCounts
  /\ summary = NoSummary
  /\ uncaught = ""
  /\ stub = "reject"
  /\ deviations = 0
  /\ badUrl = FALSE
  /\ exhaustive = TRUE
  /\ quirk = NoQuirk
  /\ prior = SingleRun

\* PenetrationTester(base_url) followed by the call of run_all_tests, as
\* the first of two such runs against one target, which answers identical
\* requests identically: as its uniform behaviour says, but for at most one
\* request
TwinInit ==
  /\ results = <<>>
  /\ clock = 0
  /\ sent = <<>>
  /\ lastResp = NoResponse
  /\ mod = 1
  /\ pc = "next"
  /\ invoked = <<>>
  /\ frame = [results |-> 0, sent |-> 0]
  /\ i = 0
  /\ failed_attempts = 0
  /\ auth_token = Null
  /\ severity_counts = ZeroCounts
  /\ summary = NoSummary
  /\ uncaught = ""
  /\ stub \in Stubs
  /\ deviations = 0
  /\ badUrl \in BOOLEAN
  /\ exhaustive = FALSE
  /\ quirk = NoQuirk
  /\ prior = FirstRun

----------------------------------------------------------------------------
\* The session: one request and its outcome

Request(method, path, site, arg, bearer) ==
  [method |-> method, path |-> path, site |-> site, arg |-> arg,
   bearer |-> bearer]

\* what the target sees of a request
Key(req) == <<req.method, req.path, req.arg, req.bearer>>

\* the outcomes a request of this kind can have in the current state
Outcomes(kind, k) ==
  IF badUrl
    THEN {UrlFault}
    ELSE IF exhaustive \/ deviations < MaxDeviations \/ prior.phase # "single"
      THEN ResponsesFor(kind, k) \cup {Nominal(stub, kind)}
      ELSE {Nominal(stub, kind)}

\* when two runs are compared: the answer to req is r only if the target
\* answers req so every time; the one request answered off the uniform
\* behaviour is fixed by its first occurrence in the first run
Consistent(req, kind, r) ==
  IF quirk.set /\ quirk.key = Key(req)
    THEN r = quirk.resp /\ quirk' = quirk
    ELSE IF r = Nominal(stub, kind)
      THEN quirk' = quirk
      ELSE /\ ~quirk.set
           /\ prior.phase = "first"
           /\ \A j \in DOMAIN sent : Key(sent[j]) # Key(req)
           /\ quirk' = [set |-> TRUE, key |-> Key(req), resp |-> r]

\* self.session.post/get(urljoin(self.base_url, path), ...) with outcome r;
\* a malformed base_url fails before anything is sent
Exchange(req, kind, r) ==
  /\ sent' = IF badUrl THEN sent ELSE Append(sent, req)
  /\ lastResp' = r
  /\ IF prior.phase = "single" \/ badUrl
       THEN quirk' = quirk
       ELSE Consistent(req, kind, r)
  /\ deviations' =
       IF exhaustive \/ badUrl \/ r = Nominal(stub, kind)
            \/ prior.phase # "single"
         THEN deviations
         ELSE deviations + 1

----------------------------------------------------------------------------
\* log_result

Result(test_name, status, details, severity) ==
  [test_name |-> test_name, status |-> status, details |-> details,
   severity |-> severity]

NoResult == Result("", "NONE", <<>>, "")

\* Mutant of log_result: the newest result is put first
log_resultNewestFirst(test_name, status, details, severity) ==
  /\ results' = <<[timestamp |-> clock, test_name |-> test_name,
                   status |-> status, severity |-> severity,
                   details |-> details]>> \o results
  /\ clock' = clock + 1

log_result(test_name, status, details, severity) ==
  /\ results' = Append(results,
       [timestamp |-> clock, test_name |-> test_name, status |-> status,
        severity |-> severity, details |-> details])
  /\ clock' = clock + 1

\* log the verdict of a step, if it has one
Record(v) ==
  IF v.status = "NONE"
    THEN UNCHANGED log
    ELSE log_result(v.test_name, v.status, v.details, v.severity)

----------------------------------------------------------------------------
\* authenticate

\* what authenticate returns for the outcome r of its login request, and
\* the exception it catches on the way, if any
\* Mutant of AuthOutcome: the token is taken from the body whatever the
\* status
AuthOutcomeAnyStatus(r) ==
  IF r.err # ""
    THEN [token |-> Null, error |-> r.err]
    ELSE CASE r.json.kind = "invalid" ->
                [token |-> Null, error |-> "JSONDecodeError"]
           [] r.json.kind = "list" ->
                [token |-> Null, error |-> "AttributeError"]
           [] OTHER ->
                [token |-> Or(r.json.token, r.json.accessToken),
                 error |-> ""]

\* Mutant of AuthOutcome: response.raise_for_status() before the status
\* test, so that a rejection is an exception too
AuthOutcomeRaiseForStatus(r) ==
  IF r.err # ""
    THEN [token |-> Null, error |-> r.err]
    ELSE IF r.status = 200
      THEN CASE r.json.kind = "invalid" ->
                  [token |-> Null, error |-> "JSONDecodeError"]
             [] r.json.kind = "list" ->
                  [token |-> Null, error |-> "AttributeError"]
             [] OTHER ->
                  [token |-> Or(r.json.token, r.json.accessToken),
                   error |-> ""]
      ELSE IF r.status >= 400
        THEN [token |-> Null, error |-> "HTTPError"]
        ELSE [token |-> Null, error |-> ""]

AuthOutcome(r) ==
  IF r.err # ""
    THEN [token |-> Null, error |-> r.err]
    ELSE IF r.status = 200
      THEN CASE r.json.kind = "invalid" ->
                  [token |-> Null, error |-> "JSONDecodeError"]
             [] r.json.kind = "list" ->
                  [token |-> Null, error |-> "AttributeError"]
             [] OTHER ->
                  [token |-> Or(r.json.token, r.json.accessToken),
                   error |-> ""]
      ELSE [token |-> Null, error |-> ""]

\* auth_token = self.authenticate(), the first statement of the three
\* probes that need a token
Authenticate ==
  /\ pc = "entry"
  /\ test_methods[mod] \in {"test_xss_vulnerabilities",
                            "test_input_validation",
                            "test_session_management"}
  /\ \E r \in Outcomes("login", 0) :
       /\ Exchange(Request("POST", LoginPath, "authenticate",
                           "testpassword123", Null), "login", r)
       /\ LET a == AuthOutcome(r) IN
            /\ auth_token' = a.token
            /\ IF a.error # ""
                 THEN log_result("Authentication Error", "ERROR",
                                 <<"Could not authenticate: ", a.error>>, "low")
                 ELSE UNCHANGED log
  /\ pc' = "authed"
  /\ UNCHANGED <<mod, invoked, frame, i, failed_attempts, rep, target>>

----------------------------------------------------------------------------
\* test_sql_injection

\* Mutant of SqlVerdict: the indicators are looked up in response.text, not
\* in response.text.lower()
SqlVerdictCaseSensitive(r, payload) ==
  IF r.err # ""
    THEN Result("SQL Injection Test Error", "ERROR",
                <<"Error testing payload ", payload, ": ", r.err>>, "low")
    ELSE IF \E j \in DOMAIN error_indicators : error_indicators[j] \in r.text
      THEN Result("SQL Injection - Login", "VULNERABLE",
                  <<"SQL error detected with payload: ", payload>>, "critical")
      ELSE IF r.status = 200 /\ "token" \in r.text
        THEN Result("SQL Injection - Authentication Bypass", "VULNERABLE",
                    <<"Authentication bypassed with payload: ", payload>>,
                    "critical")
        ELSE NoResult

SqlVerdict(r, payload) ==
  IF r.err # ""
    THEN Result("SQL Injection Test Error", "ERROR",
                <<"Error testing payload ", payload, ": ", r.err>>, "low")
    ELSE IF \E j \in DOMAIN error_indicators :
              error_indicators[j] \in lower(r.text)
      THEN Result("SQL Injection - Login", "VULNERABLE",
                  <<"SQL error detected with payload: ", payload>>, "critical")
      ELSE IF r.status = 200 /\ "token" \in r.text
        THEN Result("SQL Injection - Authentication Bypass", "VULNERABLE",
                    <<"Authentication bypassed with payload: ", payload>>,
                    "critical")
        ELSE NoResult

\* login_url = urljoin(self.base_url, '/api/auth/login'), outside any try
SqlEntry ==
  /\ pc = "entry"
  /\ test_methods[mod] = "test_sql_injection"
  /\ IF badUrl
       THEN pc' = "raised" /\ lastResp' = UrlFault /\ i' = i
       ELSE pc' = "loop" /\ lastResp' = lastResp /\ i' = 1
  /\ UNCHANGED <<log, sent, quirk, mod, invoked, frame, failed_attempts,
                 auth_token, rep, target, deviations>>

\* Mutant of SqlPayload: the except clause leaves the loop
SqlPayloadStopOnError ==
  /\ pc = "loop"
  /\ test_methods[mod] = "test_sql_injection"
  /\ i <= Len(sql_payloads)
  /\ \E r \in Outcomes("login", i) :
       /\ Exchange(Request("POST", LoginPath, "sql", sql_payloads[i], Null),
                   "login", r)
       /\ LET v == SqlVerdict(r, sql_payloads[i]) IN
            /\ Record(v)
            /\ IF v.status \in {"VULNERABLE", "ERROR"}
                 THEN pc' = "return" /\ i' = i
                 ELSE pc' = "loop" /\ i' = i + 1
  /\ UNCHANGED <<mod, invoked, frame, failed_attempts, auth_token, rep, target>>

\* one iteration of the loop over self.sql_payloads
\* Mutant of SqlPayload: a payload whose request failed is sent again
SqlPayloadRetryOnError ==
  /\ pc = "loop"
  /\ test_methods[mod] = "test_sql_injection"
  /\ i <= Len(sql_payloads)
  /\ \E r \in Outcomes("login", i) :
       /\ Exchange(Request("POST", LoginPath, "sql", sql_payloads[i], Null),
                   "login", r)
       /\ LET v == SqlVerdict(r, sql_payloads[i]) IN
            /\ Record(v)
            /\ IF v.status = "VULNERABLE"
                 THEN pc' = "return" /\ i' = i
                 ELSE IF v.status = "ERROR" /\ Len(sent) < 2 * Len(sql_payloads)
                   THEN pc' = "loop" /\ i' = i
                   ELSE pc' = "loop" /\ i' = i + 1
  /\ UNCHANGED <<mod, invoked, frame, failed_attempts, auth_token, rep, target>>

SqlPayload ==
  /\ pc = "loop"
  /\ test_methods[mod] = "test_sql_injection"
  /\ i <= Len(sql_payloads)
  /\ \E r \in Outcomes("login", i) :
       /\ Exchange(Request("POST", LoginPath, "sql", sql_payloads[i], Null),
                   "login", r)
       /\ LET v == SqlVerdict(r, sql_payloads[i]) IN
            /\ Record(v)
            /\ IF v.status = "VULNERABLE"
                 THEN pc' = "return" /\ i' = i
                 ELSE pc' = "loop" /\ i' = i + 1
  /\ UNCHANGED <<mod, invoked, frame, failed_attempts, auth_token, rep, target>>

\* the statement after the loop
SqlSecure ==
  /\ pc = "loop"
  /\ test_methods[mod] = "test_sql_injection"
  /\ i > Len(sql_payloads)
  /\ log_result("SQL Injection - Login", "SECURE",
                <<"No SQL injection vulnerabilities detected in login endpoint">>,
                "info")
  /\ pc' = "return"
  /\ UNCHANGED <<net, mod, invoked, frame, locals, rep, target, deviations>>

----------------------------------------------------------------------------
\* test_xss_vulnerabilities

\* Mutant of XssVerdict: only status 201 counts as success
XssVerdictCreatedOnly(r, payload) ==
  IF r.err # ""
    THEN Result("XSS Test Error", "ERROR",
                <<"Error testing XSS payload ", payload, ": ", r.err>>, "low")
    ELSE IF payload \in r.text /\ r.status = 201
      THEN Result("XSS - Task Creation", "VULNERABLE",
                  <<"XSS payload reflected: ", payload>>, "high")
      ELSE NoResult

XssVerdict(r, payload) ==
  IF r.err # ""
    THEN Result("XSS Test Error", "ERROR",
                <<"Error testing XSS payload ", payload, ": ", r.err>>, "low")
    ELSE IF payload \in r.text /\ r.status \in {200, 201}
      THEN Result("XSS - Task Creation", "VULNERABLE",
                  <<"XSS payload reflected: ", payload>>, "high")
      ELSE NoResult

\* if not auth_token: SKIPPED and return
XssPrecondition ==
  /\ pc = "authed"
  /\ test_methods[mod] = "test_xss_vulnerabilities"
  /\ IF ~Truthy(auth_token)
       THEN /\ log_result("XSS Testing", "SKIPPED",
                          <<"Could not authenticate - skipping XSS tests">>,
                          "low")
            /\ pc' = "return"
            /\ i' = i
       ELSE /\ UNCHANGED log
            /\ pc' = "loop"
            /\ i' = 1
  /\ UNCHANGED <<net, mod, invoked, frame, failed_attempts, auth_token, rep, target,
                 deviations>>

\* one iteration of the loop over self.xss_payloads
XssPayload ==
  /\ pc = "loop"
  /\ test_methods[mod] = "test_xss_vulnerabilities"
  /\ i <= Len(xss_payloads)
  /\ \E r \in Outcomes("xss", i) :
       /\ Exchange(Request("POST", TasksPath, "xss", xss_payloads[i],
                           auth_token), "xss", r)
       /\ LET v == XssVerdict(r, xss_payloads[i]) IN
            /\ Record(v)
            /\ IF v.status = "VULNERABLE"
                 THEN pc' = "return" /\ i' = i
                 ELSE pc' = "loop" /\ i' = i + 1
  /\ UNCHANGED <<mod, invoked, frame, failed_attempts, auth_token, rep, target>>

\* the statement after the loop
XssSecure ==
  /\ pc = "loop"
  /\ test_methods[mod] = "test_xss_vulnerabilities"
  /\ i > Len(xss_payloads)
  /\ log_result("XSS - Task Creation", "SECURE",
                <<"No XSS vulnerabilities detected in task creation">>, "info")
  /\ pc' = "return"
  /\ UNCHANGED <<net, mod, invoked, frame, locals, rep, target, deviations>>

----------------------------------------------------------------------------
\* test_authentication_security

\* Mutant of BruteVerdict: no break after the 429 result
BruteVerdictNoBreakOn429(r, failed) ==
  IF r.err # ""
    THEN [result |-> Result("Authentication Test Error", "ERROR",
                            <<"Error during brute force test: ", r.err>>,
                            "low"),
          failed |-> failed, break |-> TRUE]
    ELSE IF r.status = 401
      THEN [result |-> NoResult, failed |-> failed + 1, break |-> FALSE]
      ELSE IF r.status = 429
        THEN [result |-> Result("Brute Force Protection", "SECURE",
                                <<"Rate limiting activated after ",
                                  ToStr(failed), " attempts">>, "info"),
              failed |-> failed, break |-> FALSE]
        ELSE [result |-> NoResult, failed |-> failed, break |-> FALSE]

\* Mutant of BruteVerdict: no break in the except clause
BruteVerdictErrorContinues(r, failed) ==
  IF r.err # ""
    THEN [result |-> Result("Authentication Test Error", "ERROR",
                            <<"Error during brute force test: ", r.err>>,
                            "low"),
          failed |-> failed, break |-> FALSE]
    ELSE IF r.status = 401
      THEN [result |-> NoResult, failed |-> failed + 1, break |-> FALSE]
      ELSE IF r.status = 429
        THEN [result |-> Result("Brute Force Protection", "SECURE",
                                <<"Rate limiting activated after ",
                                  ToStr(failed), " attempts">>, "info"),
              failed |-> failed, break |-> TRUE]
        ELSE [result |-> NoResult, failed |-> failed, break |-> FALSE]

\* what one attempt does: log a result or not, count a failure or not, and
\* leave the loop or not
BruteVerdict(r, failed) ==
  IF r.err # ""
    THEN [result |-> Result("Authentication Test Error", "ERROR",
                            <<"Error during brute force test: ", r.err>>,
                            "low"),
          failed |-> failed, break |-> TRUE]
    ELSE IF r.status = 401
      THEN [result |-> NoResult, failed |-> failed + 1, break |-> FALSE]
      ELSE IF r.status = 429
        THEN [result |-> Result("Brute Force Protection", "SECURE",
                                <<"Rate limiting activated after ",
                                  ToStr(failed), " attempts">>, "info"),
              failed |-> failed, break |-> TRUE]
        ELSE [result |-> NoResult, failed |-> failed, break |-> FALSE]

\* login_url = urljoin(...), outside any try; failed_attempts = 0
BruteEntry ==
  /\ pc = "entry"
  /\ test_methods[mod] = "test_authentication_security"
  /\ IF badUrl
       THEN /\ pc' = "raised"
            /\ lastResp' = UrlFault
            /\ UNCHANGED <<i, failed_attempts>>
       ELSE /\ pc' = "loop"
            /\ lastResp' = lastResp
            /\ i' = 1
            /\ failed_attempts' = 0
  /\ UNCHANGED <<log, sent, quirk, mod, invoked, frame, auth_token, rep,
                 target, deviations>>

\* one iteration of `for i in range(10)`
BruteAttempt ==
  /\ pc = "loop"
  /\ test_methods[mod] = "test_authentication_security"
  /\ i <= BruteForceAttempts
  /\ \E r \in Outcomes("login", i) :
       /\ Exchange(Request("POST", LoginPath, "brute", ToStr(i - 1), Null),
                   "login", r)
       /\ LET v == BruteVerdict(r, failed_attempts) IN
            /\ Record(v.result)
            /\ failed_attempts' = v.failed
            /\ IF v.break
                 THEN pc' = "return" /\ i' = i
                 ELSE pc' = "loop" /\ i' = i + 1
  /\ UNCHANGED <<mod, invoked, frame, auth_token, rep, target>>

\* the else clause of the loop: it ran to its end without a break
BruteElse ==
  /\ pc = "loop"
  /\ test_methods[mod] = "test_authentication_security"
  /\ i > BruteForceAttempts
  /\ log_result("Brute Force Protection", "VULNERABLE",
                <<"No rate limiting detected after ", ToStr(failed_attempts),
                  " failed attempts">>, "medium")
  /\ pc' = "return"
  /\ UNCHANGED <<net, mod, invoked, frame, locals, rep, target, deviations>>

----------------------------------------------------------------------------
\* test_authorization_bypass

\* Mutant of AuthzVerdict: 403 is not taken as a rejection
AuthzVerdictForbiddenIgnored(r, endpoint) ==
  IF r.err # ""
    THEN Result("Authorization Test Error", "ERROR",
                <<"Error testing endpoint ", endpoint, ": ", r.err>>, "low")
    ELSE IF r.status = 200
      THEN Result("Authorization Bypass", "VULNERABLE",
                  <<"Admin endpoint accessible without authentication: ",
                    endpoint>>, "critical")
      ELSE IF r.status = 401
        THEN Result("Authorization Check", "SECURE",
                    <<"Admin endpoint properly protected: ", endpoint>>,
                    "info")
        ELSE NoResult

AuthzVerdict(r, endpoint) ==
  IF r.err # ""
    THEN Result("Authorization Test Error", "ERROR",
                <<"Error testing endpoint ", endpoint, ": ", r.err>>, "low")
    ELSE IF r.status = 200
      THEN Result("Authorization Bypass", "VULNERABLE",
                  <<"Admin endpoint accessible without authentication: ",
                    endpoint>>, "critical")
      ELSE IF r.status \in {401, 403}
        THEN Result("Authorization Check", "SECURE",
                    <<"Admin endpoint properly protected: ", endpoint>>,
                    "info")
        ELSE NoResult

\* the statements before the loop
AuthzEntry ==
  /\ pc = "entry"
  /\ test_methods[mod] = "test_authorization_bypass"
  /\ pc' = "loop"
  /\ i' = 1
  /\ UNCHANGED <<log, net, mod, invoked, frame, failed_attempts, auth_token, rep,
                 target, deviations>>

\* one iteration of the loop over admin_endpoints
AuthzEndpoint ==
  /\ pc = "loop"
  /\ test_methods[mod] = "test_authorization_bypass"
  /\ i <= Len(admin_endpoints)
  /\ \E r \in Outcomes("status", i) :
       /\ Exchange(Request("GET", admin_endpoints[i], "authz", "", Null),
                   "status", r)
       /\ Record(AuthzVerdict(r, admin_endpoints[i]))
  /\ i' = i + 1
  /\ pc' = IF i = Len(admin_endpoints) THEN "return" ELSE "loop"
  /\ UNCHANGED <<mod, invoked, frame, failed_attempts, auth_token, rep, target>>

----------------------------------------------------------------------------
\* test_input_validation

\* Mutant of InputVerdict: every 4xx status counts as a clean rejection
InputVerdictAnyClientError(r, endpoint) ==
  IF r.err # ""
    THEN Result("Input Validation Test Error", "ERROR",
                <<"Error testing ", endpoint, ": ", r.err>>, "low")
    ELSE IF r.status = 500
      THEN Result("Input Validation - Buffer Overflow", "VULNERABLE",
                  <<"Server error with large input on ", endpoint>>, "medium")
      ELSE IF r.status \in {400, 401, 403, 404, 429}
        THEN Result("Input Validation", "SECURE",
                    <<"Proper input validation on ", endpoint>>, "info")
        ELSE NoResult

InputVerdict(r, endpoint) ==
  IF r.err # ""
    THEN Result("Input Validation Test Error", "ERROR",
                <<"Error testing ", endpoint, ": ", r.err>>, "low")
    ELSE IF r.status = 500
      THEN Result("Input Validation - Buffer Overflow", "VULNERABLE",
                  <<"Server error with large input on ", endpoint>>, "medium")
      ELSE IF r.status = 400
        THEN Result("Input Validation", "SECURE",
                    <<"Proper input validation on ", endpoint>>, "info")
        ELSE NoResult

\* if not auth_token: SKIPPED and return
InputPrecondition ==
  /\ pc = "authed"
  /\ test_methods[mod] = "test_input_validation"
  /\ IF ~Truthy(auth_token)
       THEN /\ log_result("Input Validation Testing", "SKIPPED",
                          <<"Could not authenticate - skipping input validation tests">>,
                          "low")
            /\ pc' = "return"
            /\ i' = i
       ELSE /\ UNCHANGED log
            /\ pc' = "loop"
            /\ i' = 1
  /\ UNCHANGED <<net, mod, invoked, frame, failed_attempts, auth_token, rep, target,
                 deviations>>

\* one iteration of the loop over endpoints_to_test
InputEndpoint ==
  /\ pc = "loop"
  /\ test_methods[mod] = "test_input_validation"
  /\ i <= Len(endpoints_to_test)
  /\ \E r \in Outcomes("status", i) :
       /\ Exchange(Request("POST", endpoints_to_test[i][1], "input",
                           endpoints_to_test[i][2], auth_token), "status", r)
       /\ Record(InputVerdict(r, endpoints_to_test[i][1]))
  /\ i' = i + 1
  /\ pc' = IF i = Len(endpoints_to_test) THEN "return" ELSE "loop"
  /\ UNCHANGED <<mod, invoked, frame, failed_attempts, auth_token, rep, target>>

----------------------------------------------------------------------------
\* test_session_management

TamperVerdict(r) ==
  IF r.err # ""
    THEN Result("Session Management Test Error", "ERROR",
                <<"Error testing JWT security: ", r.err>>, "low")
    ELSE IF r.status = 200
      THEN Result("JWT Security", "VULNERABLE",
                  <<"JWT token accepted without valid signature">>, "critical")
      ELSE Result("JWT Security", "SECURE",
                  <<"JWT signature validation working properly">>, "info")

\* f"{parts[0]}.{parts[1]}."
tampered_token(parts) == Str(<<parts[1], parts[2], "">>)

\* if not auth_token: return
SessionPrecondition ==
  /\ pc = "authed"
  /\ test_methods[mod] = "test_session_management"
  /\ pc' = IF ~Truthy(auth_token) THEN "return" ELSE "tamper"
  /\ UNCHANGED <<log, net, mod, invoked, frame, locals, rep, target, deviations>>

\* the try block: split the token and, if it has three parts, send it
\* without its signature
SessionTamper ==
  /\ pc = "tamper"
  /\ test_methods[mod] = "test_session_management"
  /\ CASE auth_token.kind # "str" ->
            \* auth_token.split is no method of a number
            /\ Record(TamperVerdict(Fault("AttributeError")))
            /\ UNCHANGED <<net, deviations>>
       [] auth_token.kind = "str" /\ Len(auth_token.parts) = 3 ->
            \E r \in Outcomes("status", 0) :
              /\ Exchange(Request("GET", ProfilePath, "tamper", "",
                                  tampered_token(auth_token.parts)),
                          "status", r)
              /\ Record(TamperVerdict(r))
       [] OTHER ->
            UNCHANGED <<log, net, deviations>>
  /\ pc' = "return"
  /\ UNCHANGED <<mod, invoked, frame, locals, rep, target>>

----------------------------------------------------------------------------
\* test_information_disclosure

\* Mutant of InfoVerdict: the patterns are sought in the body as it is
InfoVerdictCaseSensitive(r, endpoint) ==
  IF r.err # ""
    THEN Result("Information Disclosure Test Error", "ERROR",
                <<"Error testing ", endpoint, ": ", r.err>>, "low")
    ELSE IF r.status = 200
      THEN IF \E j \in DOMAIN sensitive_patterns :
                sensitive_patterns[j] \in r.text
             THEN Result("Information Disclosure", "VULNERABLE",
                         <<"Sensitive information exposed at ", endpoint>>,
                         "medium")
             ELSE Result("Information Disclosure", "INFO",
                         <<"Endpoint accessible but no sensitive data detected: ",
                           endpoint>>, "low")
      ELSE NoResult

InfoVerdict(r, endpoint) ==
  IF r.err # ""
    THEN Result("Information Disclosure Test Error", "ERROR",
                <<"Error testing ", endpoint, ": ", r.err>>, "low")
    ELSE IF r.status = 200
      THEN IF \E j \in DOMAIN sensitive_patterns :
                sensitive_patterns[j] \in lower(r.text)
             THEN Result("Information Disclosure", "VULNERABLE",
                         <<"Sensitive information exposed at ", endpoint>>,
                         "medium")
             ELSE Result("Information Disclosure", "INFO",
                         <<"Endpoint accessible but no sensitive data detected: ",
                           endpoint>>, "low")
      ELSE NoResult

\* the statements before the loop
InfoEntry ==
  /\ pc = "entry"
  /\ test_methods[mod] = "test_information_disclosure"
  /\ pc' = "loop"
  /\ i' = 1
  /\ UNCHANGED <<log, net, mod, invoked, frame, failed_attempts, auth_token, rep,
                 target, deviations>>

\* one iteration of the loop over sensitive_endpoints
InfoEndpoint ==
  /\ pc = "loop"
  /\ test_methods[mod] = "test_information_disclosure"
  /\ i <= Len(sensitive_endpoints)
  /\ \E r \in Outcomes("info", i) :
       /\ Exchange(Request("GET", sensitive_endpoints[i], "info", "", Null),
                   "info", r)
       /\ Record(InfoVerdict(r, sensitive_endpoints[i]))
  /\ i' = i + 1
  /\ pc' = IF i = Len(sensitive_endpoints) THEN "return" ELSE "loop"
  /\ UNCHANGED <<mod, invoked, frame, failed_attempts, auth_token, rep, target>>

----------------------------------------------------------------------------
\* test_security_headers

\* f"{header} (incorrect value)"
IncorrectValue(header) ==
  CASE header = "X-Content-Type-Options" ->
         "X-Content-Type-Options (incorrect value)"
    [] header = "X-Frame-Options" -> "X-Frame-Options (incorrect value)"
    [] header = "X-XSS-Protection" -> "X-XSS-Protection (incorrect value)"
    [] header = "Strict-Transport-Security" ->
         "Strict-Transport-Security (incorrect value)"
    [] header = "Content-Security-Policy" ->
         "Content-Security-Policy (incorrect value)"
    [] header = "Referrer-Policy" -> "Referrer-Policy (incorrect value)"

\* missing_headers, built over security_headers from entry j on
RECURSIVE missing_headers(_, _)
missing_headers(headers, j) ==
  IF j > Len(security_headers)
    THEN <<>>
    ELSE LET header == security_headers[j][1]
             expected_value == security_headers[j][2]
             this == IF header \notin DOMAIN headers
                       THEN <<header>>
                       ELSE IF expected_value # {}
                               /\ headers[header] \notin expected_value
                         THEN <<IncorrectValue(header)>>
                         ELSE <<>>
         IN this \o missing_headers(headers, j + 1)

\* Mutant of HeadersVerdict: the result names the first offending header
HeadersVerdictFirstOnly(r) ==
  IF r.err # ""
    THEN Result("Security Headers Test Error", "ERROR",
                <<"Error testing security headers: ", r.err>>, "low")
    ELSE IF missing_headers(r.headers, 1) # <<>>
      THEN Result("Security Headers", "VULNERABLE",
                  <<"Missing or incorrect security headers: ",
                    Head(missing_headers(r.headers, 1))>>, "medium")
      ELSE Result("Security Headers", "SECURE",
                  <<"All important security headers present and configured correctly">>,
                  "info")

HeadersVerdict(r) ==
  IF r.err # ""
    THEN Result("Security Headers Test Error", "ERROR",
                <<"Error testing security headers: ", r.err>>, "low")
    ELSE IF missing_headers(r.headers, 1) # <<>>
      THEN Result("Security Headers", "VULNERABLE",
                  <<"Missing or incorrect security headers: ">>
                    \o missing_headers(r.headers, 1), "medium")
      ELSE Result("Security Headers", "SECURE",
                  <<"All important security headers present and configured correctly">>,
                  "info")

\* the whole method: one GET of the base URL and the check of its headers
SecurityHeaders ==
  /\ pc = "entry"
  /\ test_methods[mod] = "test_security_headers"
  /\ \E r \in Outcomes("headers", 0) :
       /\ Exchange(Request("GET", RootPath, "headers", "", Null),
                   "headers", r)
       /\ Record(HeadersVerdict(r))
  /\ pc' = "return"
  /\ UNCHANGED <<mod, invoked, frame, locals, rep, target>>

----------------------------------------------------------------------------
\* run_all_tests and generate_report

\* f'Test Error - {test_method.__name__}'
TestErrorName(method) ==
  CASE method = "test_sql_injection" -> "Test Error - test_sql_injection"
    [] method = "test_xss_vulnerabilities" ->
         "Test Error - test_xss_vulnerabilities"
    [] method = "test_authentication_security" ->
         "Test Error - test_authentication_security"
    [] method = "test_authorization_bypass" ->
         "Test Error - test_authorization_bypass"
    [] method = "test_input_validation" -> "Test Error - test_input_validation"
    [] method = "test_session_management" ->
         "Test Error - test_session_management"
    [] method = "test_information_disclosure" ->
         "Test Error - test_information_disclosure"
    [] method = "test_security_headers" -> "Test Error - test_security_headers"

\* for test_method in test_methods: try: test_method()
Invoke ==
  /\ pc = "next"
  /\ mod <= Len(test_methods)
  /\ invoked' = Append(invoked, test_methods[mod])
  /\ frame' = [results |-> Len(results), sent |-> Len(sent)]
  /\ pc' = "entry"
  /\ UNCHANGED <<log, net, mod, locals, rep, target, deviations>>

\* the method returned: the loop goes on to the next one
Return ==
  /\ pc = "return"
  /\ mod' = mod + 1
  /\ pc' = "next"
  /\ UNCHANGED <<log, net, invoked, frame, locals, rep, target, deviations>>

\* Mutant of Catch: no except clause, the failure ends run_all_tests
CatchAbort ==
  /\ pc = "raised"
  /\ pc' = "failed"
  /\ uncaught' = lastResp.err
  /\ UNCHANGED <<log, net, mod, invoked, frame, locals, severity_counts, summary,
                 target, deviations>>

\* Mutant of Catch: `except Exception: pass`
CatchSilent ==
  /\ pc = "raised"
  /\ mod' = mod + 1
  /\ pc' = "next"
  /\ UNCHANGED <<log, net, invoked, frame, locals, rep, target, deviations>>

\* Mutant of Catch: log_result called without its severity argument, which
\* then is the default 'medium'
CatchDefaultSeverity ==
  /\ pc = "raised"
  /\ log_result(TestErrorName(test_methods[mod]), "ERROR",
                <<"Unexpected error: ", lastResp.err>>, "medium")
  /\ mod' = mod + 1
  /\ pc' = "next"
  /\ UNCHANGED <<net, invoked, frame, locals, rep, target, deviations>>

\* except Exception as e: one ERROR result, and the loop goes on
Catch ==
  /\ pc = "raised"
  /\ log_result(TestErrorName(test_methods[mod]), "ERROR",
                <<"Unexpected error: ", lastResp.err>>, "low")
  /\ mod' = mod + 1
  /\ pc' = "next"
  /\ UNCHANGED <<net, invoked, frame, locals, rep, target, deviations>>

\* the number of results of a severity
RECURSIVE CountSeverity(_, _)
CountSeverity(rs, severity) ==
  IF rs = <<>>
    THEN 0
    ELSE (IF Head(rs).severity = severity THEN 1 ELSE 0)
           + CountSeverity(Tail(rs), severity)

\* generate_report, called after the loop and outside any try: it counts
\* the results by severity, then html_template.format(...) raises KeyError
\* on the braces of the template's style sheet (`body { font-family: ...`),
\* before the file is written; the exception leaves run_all_tests
GenerateReport ==
  /\ pc = "next"
  /\ mod > Len(test_methods)
  /\ severity_counts' =
       [s \in {"critical", "high", "medium", "low"} |->
          CountSeverity(results, s)]
  /\ uncaught' = "KeyError"
  /\ pc' = "failed"
  /\ UNCHANGED <<log, net, mod, invoked, frame, locals, summary, target, deviations>>

IsCritical(r) == r.severity = "critical" /\ r.status = "VULNERABLE"
IsHigh(r) == r.severity = "high" /\ r.status = "VULNERABLE"

\* the statements after generate_report: the printed summary; the method
\* has no return statement.  No run reaches them, since generate_report
\* raises: the action is no part of Next.
Summary ==
  /\ pc = "summary"
  /\ summary' =
       [critical_issues |-> SelectSeq(results, IsCritical),
        high_issues |-> SelectSeq(results, IsHigh),
        clean |-> SelectSeq(results, IsCritical) = <<>>
                    /\ SelectSeq(results, IsHigh) = <<>>,
        returned |-> "None"]
  /\ pc' = "done"
  /\ UNCHANGED <<log, net, mod, invoked, frame, locals, severity_counts, uncaught,
                 target, deviations>>

\* Mutant of Rerun: results is an attribute of the class, shared by its
\* instances
RerunSharedResults ==
  /\ pc = "failed"
  /\ prior.phase = "first"
  /\ prior' = [phase |-> "second", results |-> results, sent |-> sent]
  /\ results' = results
  /\ sent' = <<>>
  /\ lastResp' = NoResponse
  /\ mod' = 1
  /\ pc' = "next"
  /\ invoked' = <<>>
  /\ frame' = [results |-> 0, sent |-> 0]
  /\ i' = 0
  /\ failed_attempts' = 0
  /\ auth_token' = Null
  /\ severity_counts' = ZeroCounts
  /\ summary' = NoSummary
  /\ uncaught' = ""
  /\ UNCHANGED <<clock, stub, badUrl, exhaustive, deviations, quirk>>

\* a second PenetrationTester(base_url) and its run_all_tests, once the
\* first run has ended: the tester is fresh, time and the target go on
Rerun ==
  /\ pc = "failed"
  /\ prior.phase = "first"
  /\ prior' = [phase |-> "second", results |-> results, sent |-> sent]
  /\ results' = <<>>
  /\ sent' = <<>>
  /\ lastResp' = NoResponse
  /\ mod' = 1
  /\ pc' = "next"
  /\ invoked' = <<>>
  /\ frame' = [results |-> 0, sent |-> 0]
  /\ i' = 0
  /\ failed_attempts' = 0
  /\ auth_token' = Null
  /\ severity_counts' = ZeroCounts
  /\ summary' = NoSummary
  /\ uncaught' = ""
  /\ UNCHANGED <<clock, stub, badUrl, exhaustive, deviations, quirk>>

\* a probe called on its own returns to its caller
UnitReturn ==
  /\ pc = "return"
  /\ pc' = "done"
  /\ UNCHANGED <<log, net, mod, invoked, frame, locals, rep, target, deviations>>

----------------------------------------------------------------------------
\* Specifications

Next ==
  \/ Invoke \/ Return \/ Catch \/ GenerateReport
  \/ Authenticate
  \/ SqlEntry \/ SqlPayload \/ SqlSecure
  \/ XssPrecondition \/ XssPayload \/ XssSecure
  \/ BruteEntry \/ BruteAttempt \/ BruteElse
  \/ AuthzEntry \/ AuthzEndpoint
  \/ InputPrecondition \/ InputEndpoint
  \/ SessionPrecondition \/ SessionTamper
  \/ InfoEntry \/ InfoEndpoint
  \/ SecurityHeaders

\* a full run of run_all_tests
Spec == Init /\ [][Next]_vars

UnitNext ==
  \/ UnitReturn
  \/ Authenticate
  \/ SqlEntry \/ SqlPayload \/ SqlSecure
  \/ XssPrecondition \/ XssPayload \/ XssSecure
  \/ BruteEntry \/ BruteAttempt \/ BruteElse
  \/ AuthzEntry \/ AuthzEndpoint
  \/ InputPrecondition \/ InputEndpoint
  \/ SessionPrecondition \/ SessionTamper
  \/ InfoEntry \/ InfoEndpoint
  \/ SecurityHeaders

\* one probe method called on a fresh tester
UnitSpec == UnitInit /\ [][UnitNext]_vars

\* a full run of run_all_tests by the one thread of the program, which
\* executes the next statement as long as there is one
FairSpec == Spec /\ WF_vars(Next)

TwinNext == Next \/ Rerun

\* two full runs, each from a fresh tester, against one target
TwinSpec == TwinInit /\ [][TwinNext]_vars

----------------------------------------------------------------------------
\* Properties

Last(s) == s[Len(s)]
Running(method) ==
  mod \in DOMAIN test_methods /\ test_methods[mod] = method
WithStatus(status) == {j \in DOMAIN results : results[j].status = status}
Is(res, status, severity) == res.status = status /\ res.severity = severity
\* the details of a result hold the string x
Names(res, x) == \E k \in DOMAIN res.details : res.details[k] = x
Naming(x) == {j \in DOMAIN results : Names(results[j], x)}
\* the requests a probe sent from its loop
SentFrom(site) == SelectSeq(sent, LAMBDA q : q.site = site)
Finished == pc \in {"return", "done"}
\* authenticate gave a token: neither None nor the empty string
HasToken == auth_token \notin {Null, EmptyString}

\* C1: whatever the requests' outcomes, run_all_tests calls the 8 probe
\* methods once each in the declared order, reaches generate_report only
\* after the 8th has finished, and does not stop before generate_report.
C1_AllProbesRunInOrder ==
  /\ \E n \in 0..Len(test_methods) : invoked = SubSeq(test_methods, 1, n)
  /\ Len(invoked) \in {mod - 1, mod}
  /\ ENABLED GenerateReport =>
       invoked = test_methods /\ mod = Len(test_methods) + 1 /\ pc = "next"
  /\ pc = "failed" =>
       invoked = test_methods /\ mod = Len(test_methods) + 1
  /\ pc # "failed" => ENABLED Next

\* a run against a target that is down went through the 8 methods
C1_Witness ==
  /\ pc = "failed"
  /\ stub = "down"
  /\ ~badUrl
  /\ invoked = test_methods
  /\ WithStatus("ERROR") # {}
  /\ deviations = 1

\* C2: when a probe method raises, the step of run_all_tests that handles it
\* appends exactly one ERROR/low result named after the method, keeps what
\* was in the results, and goes on to the next method, which is then called.
C2_UncaughtFailureBecomesOneError ==
  /\ [][pc = "raised" =>
          /\ Len(results') = Len(results) + 1
          /\ SubSeq(results', 1, Len(results)) = results
          /\ Is(Last(results'), "ERROR", "low")
          /\ Last(results').test_name = TestErrorName(test_methods[mod])
          /\ mod' = mod + 1
          /\ pc' = "next"
          /\ invoked' = invoked
          /\ frame' = frame]_vars
  /\ [](\A m \in DOMAIN test_methods :
          LET hits == {j \in DOMAIN results :
                         results[j].test_name = TestErrorName(test_methods[m])}
          IN  /\ Cardinality(hits) <= 1
              /\ hits # {} => mod > m
              /\ (hits # {} /\ m < Len(test_methods) /\ pc = "failed") =>
                   invoked[m + 1] = test_methods[m + 1])
  /\ [](pc = "next" /\ mod <= Len(test_methods) => ENABLED Invoke)

\* two probes raised on a malformed base URL and the run went on to
\* generate_report
C2_Witness ==
  /\ pc = "failed"
  /\ \E j \in DOMAIN results :
       /\ results[j].test_name = "Test Error - test_sql_injection"
       /\ Is(results[j], "ERROR", "low")
  /\ \E j \in DOMAIN results :
       results[j].test_name = "Test Error - test_authentication_security"
  /\ invoked = test_methods

\* fragments that hold a database-error signature, in either case
SignatureFragments == {"sql syntax", "SQL Syntax", "syntax error", "Syntax Error"}

\* C3: in test_sql_injection, once the response to payload k holds a
\* database-error signature (in any case), the probe has stopped after
\* request k with exactly one VULNERABLE/critical result, the last one, under
\* the name of the error rule and naming payload k, and no SECURE result;
\* this also when the response has status 200 and a token.
C3_SqlSignatureStopsProbe ==
  (Running("test_sql_injection") /\ sent # <<>> /\ lastResp.err = ""
     /\ lastResp.text \cap SignatureFragments # {}) =>
    LET k == Len(sent) IN
      /\ Finished
      /\ \A j \in DOMAIN sent : sent[j].arg = sql_payloads[j]
      /\ k <= Len(sql_payloads)
      /\ Cardinality(WithStatus("VULNERABLE")) = 1
      /\ Is(Last(results), "VULNERABLE", "critical")
      /\ Last(results).test_name = "SQL Injection - Login"
      /\ Names(Last(results), sql_payloads[k])
      /\ WithStatus("SECURE") = {}

\* the third payload drew an upper-case signature with status 200 and a
\* token, after one transport error
C3_Witness ==
  /\ Running("test_sql_injection")
  /\ pc = "done"
  /\ Len(sent) = 3
  /\ lastResp.status = 200
  /\ lastResp.text = {"SQL Syntax", "token"}
  /\ Len(results) = 2
  /\ results[1].status = "ERROR"

\* C4: in test_sql_injection and test_xss_vulnerabilities the payloads are
\* sent in declared order; right after a transport error on payload k one
\* ERROR/low result naming it is the last result and the loop is at payload
\* k+1, whose request can be sent; a SECURE result exists only when every
\* payload was sent and no VULNERABLE result exists; a probe that ends
\* without a VULNERABLE result has sent every payload.
C4_ErrorsDoNotStopPayloads ==
  (Running("test_sql_injection") \/ Running("test_xss_vulnerabilities")) =>
    LET sql == Running("test_sql_injection")
        payloads == IF sql THEN sql_payloads ELSE xss_payloads
        probes == SentFrom(IF sql THEN "sql" ELSE "xss")
    IN
      /\ Len(probes) <= Len(payloads)
      /\ \A j \in DOMAIN probes : probes[j].arg = payloads[j]
      /\ (pc = "loop" /\ probes # <<>> /\ lastResp.err # "") =>
           /\ Is(Last(results), "ERROR", "low")
           /\ Cardinality(Naming(Last(probes).arg)) = 1
           /\ Names(Last(results), Last(probes).arg)
           /\ i = Len(probes) + 1
           /\ i <= Len(payloads) =>
                IF sql THEN ENABLED SqlPayload ELSE ENABLED XssPayload
      /\ WithStatus("SECURE") # {} =>
           /\ Len(probes) = Len(payloads)
           /\ WithStatus("VULNERABLE") = {}
           /\ Is(Last(results), "SECURE", "info")
           /\ Cardinality(WithStatus("SECURE")) = 1
      /\ (pc = "done" /\ probes # <<>> /\ WithStatus("VULNERABLE") = {}) =>
           Len(probes) = Len(payloads) /\ WithStatus("SECURE") # {}

\* the XSS probe met transport errors on its second and last payloads and
\* ended SECURE
C4_Witness ==
  /\ Running("test_xss_vulnerabilities")
  /\ pc = "done"
  /\ Len(SentFrom("xss")) = Len(xss_payloads)
  /\ Len(results) = 3
  /\ Names(results[1], xss_payloads[2])
  /\ results[2].status = "ERROR"
  /\ lastResp.err = "Timeout"
  /\ results[3].status = "SECURE"

\* the response to the last request of the XSS loop reflects its payload
Reflected ==
  /\ lastResp.err = ""
  /\ lastResp.status \in {200, 201}
  /\ Last(sent).arg \in lastResp.text

\* C5: in test_xss_vulnerabilities with a token: once a response of status
\* 200 or 201 holds the raw payload of its request, the probe has stopped
\* with one VULNERABLE/high result; while no response did, no VULNERABLE
\* result exists, and the probe ends after exactly 5 task-creation requests
\* with exactly one SECURE/info result, the last one.
C5_XssReflectionOrExhaustion ==
  (Running("test_xss_vulnerabilities") /\ SentFrom("xss") # <<>>) =>
    /\ HasToken
    /\ \A j \in DOMAIN SentFrom("xss") :
         /\ SentFrom("xss")[j].path = TasksPath
         /\ SentFrom("xss")[j].bearer = auth_token
    /\ IF Reflected
         THEN /\ Finished
              /\ Is(Last(results), "VULNERABLE", "high")
              /\ Names(Last(results), Last(sent).arg)
              /\ Cardinality(WithStatus("VULNERABLE")) = 1
              /\ WithStatus("SECURE") = {}
         ELSE /\ WithStatus("VULNERABLE") = {}
              /\ pc = "done" =>
                   /\ Len(SentFrom("xss")) = 5
                   /\ Cardinality(WithStatus("SECURE")) = 1
                   /\ Is(Last(results), "SECURE", "info")

\* the target escaped every payload and the probe ended SECURE after its
\* fifth request
C5_Witness ==
  /\ Running("test_xss_vulnerabilities")
  /\ pc = "done"
  /\ Len(SentFrom("xss")) = 5
  /\ lastResp.status = 201
  /\ lastResp.text = {escaped_payloads[5]}
  /\ results = <<Last(results)>>
  /\ Last(results).status = "SECURE"

\* what the running method has appended and sent since it was called
OwnResults == SubSeq(results, frame.results + 1, Len(results))
OwnSent == SubSeq(sent, frame.sent + 1, Len(sent))
OwnWithStatus(status) ==
  {j \in DOMAIN OwnResults : OwnResults[j].status = status}

\* C6: in a run, test_xss_vulnerabilities and test_input_validation never
\* raise, and when authenticate gave them no token they return having
\* appended exactly one SKIPPED/low result, the last one, and no VULNERABLE
\* or SECURE result, and having sent no request but the login request.
C6_SkippedWithoutToken ==
  (Running("test_xss_vulnerabilities") \/ Running("test_input_validation")) =>
    /\ pc # "raised"
    /\ (pc = "authed" /\ ~HasToken) =>
         IF Running("test_input_validation")
           THEN ENABLED InputPrecondition
           ELSE ENABLED XssPrecondition
    /\ (pc = "return" /\ ~HasToken) =>
         /\ Cardinality(OwnWithStatus("SKIPPED")) = 1
         /\ Is(Last(results), "SKIPPED", "low")
         /\ OwnWithStatus("VULNERABLE") = {}
         /\ OwnWithStatus("SECURE") = {}
         /\ Len(OwnSent) = IF badUrl THEN 0 ELSE 1
         /\ \A j \in DOMAIN OwnSent :
              /\ OwnSent[j].path = LoginPath
              /\ OwnSent[j].site = "authenticate"

\* in a run, the login of the input-validation probe answered 200 with an
\* empty token and no accessToken, and the probe returned SKIPPED
C6_Witness ==
  /\ Running("test_input_validation")
  /\ pc = "return"
  /\ lastResp.status = 200
  /\ lastResp.json = JsonObject(EmptyString, Null)
  /\ Len(OwnResults) = 1
  /\ OwnResults[1].status = "SKIPPED"
  /\ Len(OwnSent) = 1

\* C7: after test_session_management ran with a failed authentication, the
\* results hold a SKIPPED entry.
C7_SessionProbeSkipsWithoutToken ==
  (Running("test_session_management") /\ pc = "done" /\ ~HasToken)
    => WithStatus("SKIPPED") # {}

\* C8: in test_authentication_security the attempts are sent in order with
\* their own passwords, at most 10; once an attempt is answered 429 the probe
\* has stopped with exactly one result, SECURE/info; while the answers are
\* neither 429 nor a transport error the probe has no result until, after
\* exactly 10 requests, it ends with exactly one result, VULNERABLE/medium.
C8_BruteForceVerdict ==
  Running("test_authentication_security") =>
    /\ Len(sent) <= 10
    /\ \A j \in DOMAIN sent :
         /\ sent[j].path = LoginPath
         /\ sent[j].method = "POST"
         /\ sent[j].arg = ToStr(j - 1)
    /\ (sent # <<>> /\ lastResp.err = "" /\ lastResp.status = 429) =>
         /\ Finished
         /\ Len(results) = 1
         /\ Is(results[1], "SECURE", "info")
    /\ (sent # <<>> /\ lastResp.err = "" /\ lastResp.status # 429) =>
         IF pc = "loop"
           THEN results = <<>>
           ELSE /\ Finished
                /\ Len(sent) = 10
                /\ Len(results) = 1
                /\ Is(results[1], "VULNERABLE", "medium")
    /\ (pc = "done" /\ WithStatus("ERROR") = {}) => Len(results) = 1

\* nine attempts answered 401 and the tenth 429: one result, SECURE
C8_Witness ==
  /\ Running("test_authentication_security")
  /\ pc = "done"
  /\ Len(sent) = 10
  /\ failed_attempts = 9
  /\ lastResp.status = 429
  /\ Len(results) = 1
  /\ results[1].status = "SECURE"

\* C9: in test_authentication_security, once an attempt met a transport
\* error the probe has stopped: that attempt is the last request, and the
\* only result is one ERROR/low.
C9_BruteForceErrorStops ==
  (Running("test_authentication_security") /\ sent # <<>> /\ lastResp.err # "")
    =>
    /\ Finished
    /\ Len(results) = 1
    /\ Is(results[1], "ERROR", "low")
    /\ Names(results[1], lastResp.err)
    /\ WithStatus("VULNERABLE") = {}
    /\ WithStatus("SECURE") = {}

\* three attempts answered 401 and the fourth timed out
C9_Witness ==
  /\ Running("test_authentication_security")
  /\ pc = "done"
  /\ Len(sent) = 4
  /\ failed_attempts = 3
  /\ lastResp.err = "Timeout"
  /\ Len(results) = 1

\* the admin endpoint a result names
EndpointOf(res) ==
  CHOOSE k \in DOMAIN admin_endpoints : Names(res, admin_endpoints[k])

\* C10: test_authorization_bypass sends one GET without a token to each of
\* the 4 admin endpoints, in order, whatever the answers; the answer to an
\* endpoint alone decides its result: 200 one VULNERABLE/critical naming it,
\* 401 or 403 one SECURE/info naming it, a transport error one ERROR/low
\* naming it, any other status no result; the results are in endpoint order.
C10_AuthzPerEndpoint ==
  Running("test_authorization_bypass") =>
    /\ Len(sent) <= Len(admin_endpoints)
    /\ \A j \in DOMAIN sent :
         /\ sent[j].method = "GET"
         /\ sent[j].path = admin_endpoints[j]
         /\ sent[j].bearer = Null
    /\ Finished => Len(sent) = Len(admin_endpoints)
    /\ \A j \in DOMAIN results :
         /\ \E k \in 1..Len(sent) : Names(results[j], admin_endpoints[k])
         /\ \A h \in DOMAIN results :
              h < j => EndpointOf(results[h]) < EndpointOf(results[j])
    /\ sent # <<>> =>
         LET e == Last(sent).path IN
           CASE lastResp.err # "" ->
                  /\ Cardinality(Naming(e)) = 1
                  /\ Names(Last(results), e)
                  /\ Is(Last(results), "ERROR", "low")
             [] lastResp.err = "" /\ lastResp.status = 200 ->
                  /\ Cardinality(Naming(e)) = 1
                  /\ Names(Last(results), e)
                  /\ Is(Last(results), "VULNERABLE", "critical")
             [] lastResp.err = "" /\ lastResp.status \in {401, 403} ->
                  /\ Cardinality(Naming(e)) = 1
                  /\ Names(Last(results), e)
                  /\ Is(Last(results), "SECURE", "info")
             [] OTHER -> Naming(e) = {}

\* the endpoints answered 200, 403, a fault and 500: three results in order
C10_Witness ==
  /\ Running("test_authorization_bypass")
  /\ pc = "done"
  /\ Len(results) = 3
  /\ results[1].status = "VULNERABLE"
  /\ Names(results[1], admin_endpoints[1])
  /\ results[2].status = "SECURE"
  /\ Names(results[2], admin_endpoints[2])
  /\ results[3].status = "ERROR"
  /\ lastResp.status = 500

\* the pair of endpoints_to_test a result names
PairOf(res) ==
  CHOOSE k \in DOMAIN endpoints_to_test : Names(res, endpoints_to_test[k][1])

\* C11: with a token, test_input_validation sends one POST carrying the
\* token and the oversized field to each of its 3 pairs, in order, whatever
\* the answers; the answer to a pair alone decides its result: 500 one
\* VULNERABLE/medium naming it, 400 one SECURE/info naming it, a transport
\* error one ERROR/low naming it, any other status no result; the results
\* are in pair order and no other result is appended.
C11_InputPerPair ==
  (Running("test_input_validation") /\ pc \notin {"entry", "authed"} /\ HasToken)
    =>
    LET posts == SentFrom("input") IN
      /\ pc \in {"loop", "return", "done"}
      /\ Len(sent) = Len(posts) + 1
      /\ Len(posts) <= Len(endpoints_to_test)
      /\ \A j \in DOMAIN posts :
           /\ posts[j].method = "POST"
           /\ posts[j].path = endpoints_to_test[j][1]
           /\ posts[j].arg = endpoints_to_test[j][2]
           /\ posts[j].bearer = auth_token
      /\ Finished <=> Len(posts) = Len(endpoints_to_test)
      /\ Len(results) <= Len(posts)
      /\ \A j \in DOMAIN results :
           /\ \E k \in 1..Len(posts) : Names(results[j], endpoints_to_test[k][1])
           /\ \A h \in DOMAIN results :
                h < j => PairOf(results[h]) < PairOf(results[j])
      /\ posts # <<>> =>
           LET e == Last(posts).path IN
             CASE lastResp.err # "" ->
                    /\ Cardinality(Naming(e)) = 1
                    /\ Names(Last(results), e)
                    /\ Is(Last(results), "ERROR", "low")
               [] lastResp.err = "" /\ lastResp.status = 500 ->
                    /\ Cardinality(Naming(e)) = 1
                    /\ Names(Last(results), e)
                    /\ Is(Last(results), "VULNERABLE", "medium")
               [] lastResp.err = "" /\ lastResp.status = 400 ->
                    /\ Cardinality(Naming(e)) = 1
                    /\ Names(Last(results), e)
                    /\ Is(Last(results), "SECURE", "info")
               [] OTHER -> Naming(e) = {}

\* the pairs answered 500, a fault and 401: two results in order, and the
\* third request was still sent
C11_Witness ==
  /\ Running("test_input_validation")
  /\ pc = "done"
  /\ HasToken
  /\ Len(SentFrom("input")) = 3
  /\ Len(results) = 2
  /\ Is(results[1], "VULNERABLE", "medium")
  /\ Names(results[1], endpoints_to_test[1][1])
  /\ Is(results[2], "ERROR", "low")
  /\ Names(results[2], endpoints_to_test[2][1])
  /\ lastResp.status = 401

\* the token has exactly three '.'-separated segments
ThreeSegments(v) == v.kind = "str" /\ Len(v.parts) = 3

\* C12: when test_session_management has run with a token of exactly three
\* segments, it has sent exactly one GET of the profile carrying the token
\* with its third segment emptied and has appended exactly one result,
\* VULNERABLE/critical for status 200 and SECURE/info for any other status;
\* when it has run with a token of any other shape, it has sent no such
\* request and has appended no result.
C12_TamperByTokenShape ==
  (Running("test_session_management") /\ Finished /\ HasToken) =>
    LET gets == SentFrom("tamper") IN
      IF ThreeSegments(auth_token)
        THEN /\ Len(gets) = 1
             /\ gets[1].method = "GET"
             /\ gets[1].path = ProfilePath
             /\ gets[1].bearer =
                  Str(<<auth_token.parts[1], auth_token.parts[2], "">>)
             /\ Len(results) = 1
             /\ lastResp.err = "" =>
                  IF lastResp.status = 200
                    THEN Is(results[1], "VULNERABLE", "critical")
                    ELSE Is(results[1], "SECURE", "info")
        ELSE /\ gets = <<>>
             /\ results = <<>>

\* the sensitive keywords, in the cases the bodies spell them
KeywordFragments == {"password", "PASSWORD", "secret", "Secret", "key"}

\* the path of sensitive_endpoints a result names
PathOf(res) ==
  CHOOSE k \in DOMAIN sensitive_endpoints : Names(res, sensitive_endpoints[k])

\* C13: test_information_disclosure sends one GET to each of its 7 paths, in
\* order, whatever the answers and whatever it found; each path has at most
\* one result, decided by its answer alone: status 200 with a keyword in any
\* case one VULNERABLE/medium, however many keywords match; status 200 with
\* no keyword one INFO/low; any other status no result; the results are in
\* path order.
C13_InfoPerPath ==
  Running("test_information_disclosure") =>
    /\ Len(sent) <= Len(sensitive_endpoints)
    /\ \A j \in DOMAIN sent :
         /\ sent[j].method = "GET"
         /\ sent[j].path = sensitive_endpoints[j]
    /\ Finished <=> Len(sent) = Len(sensitive_endpoints)
    /\ Len(results) <= Len(sent)
    /\ \A j \in DOMAIN results :
         /\ \E k \in 1..Len(sent) : Names(results[j], sensitive_endpoints[k])
         /\ \A h \in DOMAIN results :
              h < j => PathOf(results[h]) < PathOf(results[j])
    /\ sent # <<>> =>
         LET e == Last(sent).path IN
           CASE lastResp.err = "" /\ lastResp.status = 200
                  /\ lastResp.text \cap KeywordFragments # {} ->
                  /\ Cardinality(Naming(e)) = 1
                  /\ Names(Last(results), e)
                  /\ Is(Last(results), "VULNERABLE", "medium")
             [] lastResp.err = "" /\ lastResp.status = 200
                  /\ lastResp.text \cap KeywordFragments = {} ->
                  /\ Cardinality(Naming(e)) = 1
                  /\ Names(Last(results), e)
                  /\ Is(Last(results), "INFO", "low")
             [] lastResp.err = "" /\ lastResp.status # 200 ->
                  Naming(e) = {}
             [] OTHER -> Cardinality(Naming(e)) = 1

\* the first path gave a finding and all 7 paths were still requested; the
\* last one exposed two keywords at once and has one finding
C13_Witness ==
  /\ Running("test_information_disclosure")
  /\ pc = "done"
  /\ Len(sent) = 7
  /\ Len(results) >= 2
  /\ Is(results[1], "VULNERABLE", "medium")
  /\ Names(results[1], sensitive_endpoints[1])
  /\ lastResp.status = 200
  /\ lastResp.text = {"Secret", "key"}
  /\ Cardinality(Naming(sensitive_endpoints[7])) = 1
  /\ Is(Last(results), "VULNERABLE", "medium")

\* the checked headers a response lacks, and those it carries with a value
\* that is not allowed
Absent(headers) == HeaderNames \ DOMAIN headers
Disallowed(headers) ==
  {h \in HeaderNames \cap DOMAIN headers :
     \E j \in DOMAIN security_headers :
       /\ security_headers[j][1] = h
       /\ security_headers[j][2] # {}
       /\ headers[h] \notin security_headers[j][2]}

\* C14: when test_security_headers has run, it has sent one GET of the base
\* URL and appended exactly one result: ERROR/low on a transport error;
\* else, if a checked header is absent or has a disallowed value, one
\* VULNERABLE/medium whose details name every absent header and every
\* header of disallowed value, and no other; else one SECURE/info.
C14_HeadersOneResult ==
  (Running("test_security_headers") /\ pc # "entry") =>
    /\ Finished
    /\ Len(sent) = 1
    /\ sent[1].method = "GET"
    /\ sent[1].path = RootPath
    /\ Len(results) = 1
    /\ IF lastResp.err # ""
         THEN Is(results[1], "ERROR", "low")
         ELSE LET absent == Absent(lastResp.headers)
                  disallowed == Disallowed(lastResp.headers)
              IN IF absent \cup disallowed # {}
                   THEN /\ Is(results[1], "VULNERABLE", "medium")
                        /\ \A h \in absent : Names(results[1], h)
                        /\ \A h \in disallowed :
                             Names(results[1], IncorrectValue(h))
                        /\ Len(results[1].details) =
                             1 + Cardinality(absent \cup disallowed)
                   ELSE Is(results[1], "SECURE", "info")

\* the response lacked Strict-Transport-Security and carried
\* X-Frame-Options: ALLOW-FROM: one result naming both
C14_Witness ==
  /\ Running("test_security_headers")
  /\ pc = "done"
  /\ "Strict-Transport-Security" \notin DOMAIN lastResp.headers
  /\ "X-Frame-Options" \in DOMAIN lastResp.headers
  /\ lastResp.headers["X-Frame-Options"] = "ALLOW-FROM"
  /\ Len(results) = 1
  /\ Is(results[1], "VULNERABLE", "medium")
  /\ Names(results[1], "Strict-Transport-Security")
  /\ Names(results[1], "X-Frame-Options (incorrect value)")
  /\ Len(results[1].details) = 3

\* the running probe is one of the three that call authenticate
NeedsToken ==
  \/ Running("test_xss_vulnerabilities")
  \/ Running("test_input_validation")
  \/ Running("test_session_management")

\* C15: authenticate, called by a probe, always returns to it; when it has
\* returned it has sent exactly one POST of the login, and the value it
\* returned is, for status 200 and a body that is a JSON object, the token
\* field if that holds a usable value and else the accessToken field, and
\* None for any other status, for a body that does not parse to an object
\* and for a transport error.
C15_AuthenticateReturns ==
  NeedsToken =>
    /\ pc # "raised"
    /\ pc = "entry" => ENABLED Authenticate
    /\ pc = "authed" =>
         /\ Len(sent) = 1
         /\ sent[1].method = "POST"
         /\ sent[1].path = LoginPath
         /\ sent[1].site = "authenticate"
         /\ IF lastResp.err = "" /\ lastResp.status = 200
                /\ lastResp.json.kind = "object"
              THEN auth_token =
                     IF lastResp.json.token \notin {Null, EmptyString}
                       THEN lastResp.json.token
                       ELSE lastResp.json.accessToken
              ELSE auth_token = Null

\* the login answered 200 with an empty token and a signed accessToken:
\* authenticate returned the accessToken
C15_Witness ==
  /\ NeedsToken
  /\ pc = "authed"
  /\ lastResp.status = 200
  /\ lastResp.json = JsonObject(EmptyString, Jwt)
  /\ auth_token = Jwt
  /\ Len(sent) = 1

\* C16 (as claimed): whatever the outcome of the login request, the result
\* list is the same when authenticate returns as when it was called.
C16_AuthenticateLeavesResults ==
  (NeedsToken /\ pc = "authed") => OwnResults = <<>>

\* the login attempt raised inside authenticate: the call or urljoin
\* failed, or the body of a 200 is no JSON object
LoginRaised ==
  \/ lastResp.err # ""
  \/ lastResp.status = 200 /\ lastResp.json.kind # "object"

\* C16 (as amended): when authenticate returns, it has appended exactly one
\* result, 'Authentication Error' ERROR/low naming the exception, if the
\* login attempt raised, and has left the result list as it was otherwise;
\* it has sent at most the one login request.
C16_AuthenticateLogsOnlyErrors ==
  (NeedsToken /\ pc = "authed") =>
    /\ Len(OwnSent) <= 1
    /\ IF LoginRaised
         THEN /\ Len(OwnResults) = 1
              /\ Is(OwnResults[1], "ERROR", "low")
              /\ OwnResults[1].test_name = "Authentication Error"
              /\ auth_token = Null
         ELSE OwnResults = <<>>

\* in a run, the login request of the input-validation probe met a
\* transport error: authenticate returned None and left one ERROR result
C16_Witness ==
  /\ Running("test_input_validation")
  /\ pc = "authed"
  /\ lastResp.err = "ConnectionError"
  /\ auth_token = Null
  /\ Len(OwnSent) = 1
  /\ Len(OwnResults) = 1
  /\ Names(OwnResults[1], "ConnectionError")
  /\ frame.results > 0

\* a result list without its timestamps
Strip(rs) ==
  [j \in DOMAIN rs |->
     [test_name |-> rs[j].test_name, status |-> rs[j].status,
      severity |-> rs[j].severity, details |-> rs[j].details]]

\* C17: of two runs of run_all_tests, each from a fresh tester, against a
\* target that answers identical requests identically, the second at every
\* point has produced the results of the first up to that length, the
\* timestamps set aside, and has sent the requests of the first up to that
\* length; when it has ended, the two result lists have the same length and
\* agree entry by entry on test_name, status, severity and details, and the
\* two sequences of requests are the same.
C17_TwoRunsAgree ==
  prior.phase = "second" =>
    /\ Len(results) <= Len(prior.results)
    /\ Strip(results) = SubSeq(Strip(prior.results), 1, Len(results))
    /\ Len(sent) <= Len(prior.sent)
    /\ sent = SubSeq(prior.sent, 1, Len(sent))
    /\ pc = "failed" =>
         /\ Len(results) = Len(prior.results)
         /\ Strip(results) = Strip(prior.results)
         /\ sent = prior.sent

\* both runs have ended against a target that gave one answer off its
\* uniform behaviour, to a request sent more than once in a run; the runs
\* hold a finding, and their results differ in the timestamps only
C17_Witness ==
  /\ prior.phase = "second"
  /\ pc = "failed"
  /\ quirk.set
  /\ Cardinality({j \in DOMAIN sent : Key(sent[j]) = quirk.key}) > 1
  /\ WithStatus("VULNERABLE") # {}
  /\ Len(results) = Len(prior.results)
  /\ results # prior.results
  /\ results[1].timestamp > prior.results[1].timestamp

\* the results of a status and a severity
Findings(status, severity) ==
  {j \in DOMAIN results : Is(results[j], status, severity)}

\* C18: when generate_report has counted, the tally holds for each severity
\* the number of results of status VULNERABLE and that severity.
C18_TallyCountsVulnerableOnly ==
  (pc = "failed" /\ uncaught = "KeyError") =>
    \A s \in DOMAIN severity_counts :
      severity_counts[s] = Cardinality(Findings("VULNERABLE", s))

\* C19: when run_all_tests has ended, it has handed its caller the signal
\* 'critical or high finding present' if the results hold a VULNERABLE
\* result of severity critical or high, and the opposite signal otherwise.
C19_SignalSurfaced ==
  pc \in {"failed", "done"} =>
    /\ summary.returned # "pending"
    /\ summary.clean <=>
         Findings("VULNERABLE", "critical") \cup Findings("VULNERABLE", "high")
           = {}

\* C20: every step of a run (of a probe, of authenticate, of run_all_tests,
\* of generate_report) leaves the result list as it is or adds one result
\* at its end: the entries it held stay, in their places, as they were.
C20_ResultsAppendOnly ==
  [][\/ results' = results
     \/ /\ Len(results') = Len(results) + 1
        /\ SubSeq(results', 1, Len(results)) = results]_vars

\* generate_report has run on a list of results of several probes, logged
\* one after the other
C20_Witness ==
  /\ pc = "failed"
  /\ uncaught = "KeyError"
  /\ Len(results) >= 4
  /\ \A j \in DOMAIN results : results[j].timestamp = j - 1
  /\ WithStatus("VULNERABLE") # {}
  /\ WithStatus("ERROR") # {}
  /\ WithStatus("SKIPPED") # {}

\* the requests of a site that the running method has sent
OwnFrom(site) == SelectSeq(OwnSent, LAMBDA q : q.site = site)

\* the most requests a probe sends from each of its sites
SiteLimit(site) ==
  CASE site = "sql" -> Len(sql_payloads)
    [] site = "xss" -> Len(xss_payloads)
    [] site = "brute" -> BruteForceAttempts
    [] site = "authz" -> Len(admin_endpoints)
    [] site = "input" -> Len(endpoints_to_test)
    [] site = "tamper" -> 1
    [] site = "info" -> Len(sensitive_endpoints)
    [] site = "headers" -> 1
    [] site = "authenticate" -> 3

Sites ==
  {"sql", "xss", "brute", "authz", "input", "tamper", "info", "headers",
   "authenticate"}

\* C21: in a run, no payload, attempt index, admin endpoint, pair, path,
\* tampered token or headers request is sent twice, also after a transport
\* error: two requests of one site other than authenticate differ in path or
\* in argument, and each site sends no more than its list holds; a method
\* sends at most one login request for authentication, and only the three
\* methods that need a token send one; the run sends at most 39 requests;
\* and the run ends.
C21_NoRetriesBoundedRun ==
  /\ [](\A j, k \in DOMAIN sent :
          (j < k /\ sent[j].site = sent[k].site
             /\ sent[j].site # "authenticate") =>
            <<sent[j].path, sent[j].arg>> # <<sent[k].path, sent[k].arg>>)
  /\ [](\A site \in Sites : Len(SentFrom(site)) <= SiteLimit(site))
  /\ [](\A j \in DOMAIN sent : sent[j].site \in Sites)
  /\ [](Len(OwnFrom("authenticate")) <= 1)
  /\ []((pc # "next" /\ OwnFrom("authenticate") # <<>>) => NeedsToken)
  /\ [](Len(sent) <= 39)
  /\ <>(pc = "failed")

\* the run has ended having sent 36 requests, three of them logins for
\* authentication, and one request met a transport error, logged once
C21_Witness ==
  /\ pc = "failed"
  /\ Len(sent) = 36
  /\ Len(SentFrom("authenticate")) = 3
  /\ Len(SentFrom("brute")) = BruteForceAttempts
  /\ Len(SentFrom("info")) = Len(sensitive_endpoints)
  /\ Cardinality(WithStatus("ERROR")) = 1

\* C22: every result of the list has a status among VULNERABLE, SECURE,
\* ERROR, SKIPPED and INFO and a severity among critical, high, medium, low
\* and info; a SECURE result has severity info, an ERROR, SKIPPED or INFO
\* result severity low, a VULNERABLE result severity critical, high or medium.
C22_StatusSeverityPairing ==
  \A j \in DOMAIN results :
    /\ results[j].status \in {"VULNERABLE", "SECURE", "ERROR", "SKIPPED", "INFO"}
    /\ results[j].severity \in {"critical", "high", "medium", "low", "info"}
    /\ results[j].status = "SECURE" => results[j].severity = "info"
    /\ results[j].status \in {"ERROR", "SKIPPED", "INFO"} =>
         results[j].severity = "low"
    /\ results[j].status = "VULNERABLE" =>
         results[j].severity \in {"critical", "high", "medium"}

\* a run has ended with results of all five statuses, among them findings
\* of two severities
C22_Witness ==
  /\ pc = "failed"
  /\ Findings("VULNERABLE", "critical") # {}
  /\ Findings("VULNERABLE", "medium") # {}
  /\ Findings("SECURE", "info") # {}
  /\ Findings("ERROR", "low") # {}
  /\ Findings("SKIPPED", "low") # {}
  /\ Findings("INFO", "low") # {}

====
